---------------------------- MODULE Spec2Model ----------------------------
(***************************************************************************)
(* RFV (Recencia, Frequencia, Valor) segmentation pipeline of app.py.      *)
(*                                                                         *)
(* The state is the set of data frames main() builds, one after the other, *)
(* from the purchase table df_compras.  A data frame indexed by ID_cliente *)
(* is a record of columns, each column a function from the customer ids to *)
(* the cell values.  Dates are day numbers, amounts are integers.          *)
(*                                                                         *)
(* Every row of df_compras carries a CodigoCompra cell; the column is used *)
(* only by count() (line 115), which then counts the rows of the group, so *)
(* the cell's value is not part of a row here.                             *)
(*                                                                         *)
(* DataFrame.quantile interpolates linearly between ranked values at the   *)
(* positions (n-1)*0.25, (n-1)*0.5, (n-1)*0.75.  The boundaries are        *)
(* multiples of 1/4, so quartis stores them multiplied by 4 and a cell x   *)
(* is compared as 4*x <= boundary.                                         *)
(***************************************************************************)
EXTENDS Integers, Sequences, FiniteSets, TLC

VARIABLES df_compras, pc, erro, dia_atual, df_recencia, df_frequencia,
          df_valor, df_RFV, quartis, resumo

vars == <<df_compras, pc, erro, dia_atual, df_recencia, df_frequencia,
          df_valor, df_RFV, quartis, resumo>>

(* Bounds of the purchase tables that are explored. *)
MaxTx == 5
MaxCust == 4
MaxDay == 1
MaxAmount == 1

Clientes == 1..MaxCust
Dias == 0..MaxDay
Valores == 0..MaxAmount

(* A row of df_compras: the columns main() reads. *)
Compra == [ID_cliente : Clientes, DiaCompra : Dias, ValorTotal : Valores]

(* No result of main() depends on the order of the rows of df_compras     *)
(* (groupby, max, count and sum read a group as a set of rows), so the     *)
(* tables are enumerated up to row order: rows ascending by Chave.         *)
Chave(r) == (r.ID_cliente * (MaxDay + 1) + r.DiaCompra) * (MaxAmount + 1)
               + r.ValorTotal

RECURSIVE Tabelas(_)
Tabelas(n) ==
    IF n = 0 THEN {<<>>}
    ELSE UNION {{Append(s, r) : r \in {x \in Compra :
                                  n = 1 \/ Chave(s[n - 1]) <= Chave(x)}} :
                s \in Tabelas(n - 1)}

(* dia_atual before line 104 has run. *)
NaT == -1

(* The missing value Series.map leaves for a key that is not in the dict. *)
NaN == "NaN"

(* The empty data frame / the empty Series. *)
Vazio == <<>>

Min(a, b) == IF a <= b THEN a ELSE b

(* ----------------------------- Aggregation ----------------------------- *)

(* The rows of a purchase table. *)
Linhas(df) == 1..Len(df)

(* groupby('ID_cliente'): the group keys and the rows of one group. *)
Grupos(df) == {df[i].ID_cliente : i \in Linhas(df)}

Grupo(df, c) == {i \in Linhas(df) : df[i].ID_cliente = c}

(* Variant: the earliest instead of the latest date. *)
MaxDia_min(df, I) == CHOOSE d \in {df[i].DiaCompra : i \in I} :
                        \A i \in I : d <= df[i].DiaCompra

(* Series.max() of the DiaCompra cells of a set of rows. *)
MaxDia(df, I) == CHOOSE d \in {df[i].DiaCompra : i \in I} :
                    \A i \in I : df[i].DiaCompra <= d

(* Variant: nunique() instead of count(), equal rows counted once. *)
Count_nunique(df, c) == Cardinality({df[i] : i \in Grupo(df, c)})

(* groupby(...).count(): the number of rows of the group. *)
Count(df, c) == Cardinality(Grupo(df, c))

(* groupby(...).sum() of the ValorTotal cells of a set of rows. *)
RECURSIVE SumValor(_, _)
SumValor(df, I) ==
    IF I = {} THEN 0
    ELSE LET i == CHOOSE j \in I : TRUE
         IN  df[i].ValorTotal + SumValor(df, I \ {i})

(* ------------------------------ Quartiles ------------------------------ *)

(* Variant: the cells in index order, not ranked. *)
RECURSIVE Ordenado_indice(_, _)
Ordenado_indice(col, S) ==
    IF S = {} THEN <<>>
    ELSE LET c == CHOOSE m \in S : \A o \in S : m <= o
         IN  <<col[c]>> \o Ordenado_indice(col, S \ {c})

(* The cells of a column in ascending order, as quantile ranks them. *)
RECURSIVE Ordenado(_, _)
Ordenado(col, S) ==
    IF S = {} THEN <<>>
    ELSE LET c == CHOOSE m \in S : \A o \in S : col[m] <= col[o]
         IN  <<col[c]>> \o Ordenado(col, S \ {c})

(* Series.quantile(k/4) with linear interpolation, times 4. *)
Quantile(col, k) ==
    LET a    == Ordenado(col, DOMAIN col)
        n    == Len(a)
        pos  == (n - 1) * k
        lo   == (pos \div 4) + 1
        hi   == Min(lo + 1, n)
        frac == pos % 4
    IN  4 * a[lo] + (a[hi] - a[lo]) * frac

(* DataFrame.quantile(q=[0.25, 0.5, 0.75]): one column of boundaries per   *)
(* column of the frame.                                                    *)
QuantileDF(df) ==
    [m \in DOMAIN df |-> [q25 |-> Quantile(df[m], 1),
                          q50 |-> Quantile(df[m], 2),
                          q75 |-> Quantile(df[m], 3)]]

(* ---------------------------- Classification --------------------------- *)

(* Variant: strict comparison at the first boundary. *)
recencia_class_lt(x, r, q_dict) ==
    IF 4 * x < q_dict[r].q25 THEN "A"
    ELSE IF 4 * x <= q_dict[r].q50 THEN "B"
    ELSE IF 4 * x <= q_dict[r].q75 THEN "C"
    ELSE "D"

recencia_class(x, r, q_dict) ==
    IF 4 * x <= q_dict[r].q25 THEN "A"
    ELSE IF 4 * x <= q_dict[r].q50 THEN "B"
    ELSE IF 4 * x <= q_dict[r].q75 THEN "C"
    ELSE "D"

(* Variant: strict comparison at the first boundary. *)
freq_val_class_lt(x, fv, q_dict) ==
    IF 4 * x < q_dict[fv].q25 THEN "D"
    ELSE IF 4 * x <= q_dict[fv].q50 THEN "C"
    ELSE IF 4 * x <= q_dict[fv].q75 THEN "B"
    ELSE "A"

(* Variant: the lower-is-better grades applied to frequency and value. *)
freq_val_class_inv(x, fv, q_dict) ==
    IF 4 * x <= q_dict[fv].q25 THEN "A"
    ELSE IF 4 * x <= q_dict[fv].q50 THEN "B"
    ELSE IF 4 * x <= q_dict[fv].q75 THEN "C"
    ELSE "D"

freq_val_class(x, fv, q_dict) ==
    IF 4 * x <= q_dict[fv].q25 THEN "D"
    ELSE IF 4 * x <= q_dict[fv].q50 THEN "C"
    ELSE IF 4 * x <= q_dict[fv].q75 THEN "B"
    ELSE "A"

(* ------------------------------- Actions ------------------------------- *)

AcaoAAA == "Enviar cupons de desconto, pedir indicacao, enviar amostras gratis de novos produtos."

AcaoDDD == "Clientes inativos com baixo gasto - monitorar ou desconsiderar acoes."

AcaoReativacao == "Clientes que gastaram bastante mas estao sumindo - enviar cupom de reativacao."

dict_acoes ==
    [s \in {"AAA", "DDD", "DAA", "CAA"} |->
        CASE s = "AAA" -> AcaoAAA
          [] s = "DDD" -> AcaoDDD
          [] s = "DAA" -> AcaoReativacao
          [] s = "CAA" -> AcaoReativacao]

(* Series.map(dict): a key missing from the dict gives NaN. *)
MapDict(col, d) ==
    [c \in DOMAIN col |-> IF col[c] \in DOMAIN d THEN d[col[c]] ELSE NaN]

(* Variant: value_counts() with its default dropna=True. *)
ValueCounts_dropna(col) ==
    [v \in {col[c] : c \in DOMAIN col} \ {NaN} |->
        Cardinality({c \in DOMAIN col : col[c] = v})]

(* Series.value_counts(dropna=False): how many cells hold each value that  *)
(* occurs, NaN included.                                                   *)
ValueCounts(col) ==
    [v \in {col[c] : c \in DOMAIN col} |->
        Cardinality({c \in DOMAIN col : col[c] = v})]

(* The index of a frame: the domain shared by its columns. *)
Index(df) == IF df = Vazio THEN {} ELSE DOMAIN df.Recencia

(* Variant: the frame rebuilt from the new column alone. *)
ComColuna_so(df, name, col) == (name :> col)

(* df[name] = col *)
ComColuna(df, name, col) == (name :> col) @@ df

(* ------------------------------ The run -------------------------------- *)

Init ==
    /\ df_compras \in UNION {Tabelas(n) : n \in 0..MaxTx}
    /\ pc = "recencia"
    /\ erro = FALSE
    /\ dia_atual = NaT
    /\ df_recencia = Vazio
    /\ df_frequencia = Vazio
    /\ df_valor = Vazio
    /\ df_RFV = Vazio
    /\ quartis = Vazio
    /\ resumo = Vazio

(* Variant: line 105 absent, an empty table goes on through the run. *)
Recencia_sem105 ==
    /\ pc = "recencia"
    /\ dia_atual' = IF df_compras = <<>> THEN NaT
                    ELSE MaxDia(df_compras, Linhas(df_compras))
    /\ df_recencia' =
          [c \in Grupos(df_compras) |->
              dia_atual' - MaxDia(df_compras, Grupo(df_compras, c))]
    /\ pc' = "frequencia"
    /\ UNCHANGED <<erro, df_compras, df_frequencia, df_valor, df_RFV, quartis,
                   resumo>>

(* Variant: recency measured from a day after every purchase of the table. *)
Recencia_hoje ==
    /\ pc = "recencia"
    /\ IF df_compras = <<>>
       THEN /\ pc' = "abortado"
            /\ erro' = TRUE
            /\ UNCHANGED <<dia_atual, df_recencia>>
       ELSE /\ dia_atual' = MaxDay + 1
            /\ df_recencia' =
                  [c \in Grupos(df_compras) |->
                      dia_atual' - MaxDia(df_compras, Grupo(df_compras, c))]
            /\ pc' = "frequencia"
            /\ UNCHANGED erro
    /\ UNCHANGED <<df_compras, df_frequencia, df_valor, df_RFV, quartis, resumo>>

(* Lines 104-110.  On an empty table max() gives NaT and the date() of     *)
(* line 105 raises: the run ends there.                                    *)
Recencia ==
    /\ pc = "recencia"
    /\ IF df_compras = <<>>
       THEN /\ pc' = "abortado"
            /\ erro' = TRUE
            /\ UNCHANGED <<dia_atual, df_recencia>>
       ELSE /\ dia_atual' = MaxDia(df_compras, Linhas(df_compras))
            /\ df_recencia' =
                  [c \in Grupos(df_compras) |->
                      dia_atual' - MaxDia(df_compras, Grupo(df_compras, c))]
            /\ pc' = "frequencia"
            /\ UNCHANGED erro
    /\ UNCHANGED <<df_compras, df_frequencia, df_valor, df_RFV, quartis, resumo>>

(* Lines 115-116. *)
Frequencia ==
    /\ pc = "frequencia"
    /\ df_frequencia' = [c \in Grupos(df_compras) |-> Count(df_compras, c)]
    /\ pc' = "valor"
    /\ UNCHANGED <<df_compras, erro, dia_atual, df_recencia, df_valor, df_RFV,
                   quartis, resumo>>

(* Lines 121-122. *)
Valor ==
    /\ pc = "valor"
    /\ df_valor' = [c \in Grupos(df_compras) |->
                       SumValor(df_compras, Grupo(df_compras, c))]
    /\ pc' = "tabela"
    /\ UNCHANGED <<df_compras, erro, dia_atual, df_recencia, df_frequencia,
                   df_RFV, quartis, resumo>>

(* Lines 127-132: inner joins on ID_cliente, then ID_cliente as the index. *)
TabelaRFV ==
    /\ pc = "tabela"
    /\ LET ids == (DOMAIN df_recencia) \cap (DOMAIN df_frequencia)
                     \cap (DOMAIN df_valor)
       IN  df_RFV' = [Recencia   |-> [c \in ids |-> df_recencia[c]],
                      Frequencia |-> [c \in ids |-> df_frequencia[c]],
                      Valor      |-> [c \in ids |-> df_valor[c]]]
    /\ pc' = "quartis"
    /\ UNCHANGED <<df_compras, erro, dia_atual, df_recencia, df_frequencia,
                   df_valor, quartis, resumo>>

(* Line 137. *)
Segmentacao ==
    /\ pc = "quartis"
    /\ quartis' = QuantileDF(df_RFV)
    /\ pc' = "R_quartil"
    /\ UNCHANGED <<df_compras, erro, dia_atual, df_recencia, df_frequencia,
                   df_valor, df_RFV, resumo>>

(* Line 140. *)
ClassificaR ==
    /\ pc = "R_quartil"
    /\ df_RFV' = ComColuna(df_RFV, "R_quartil",
                    [c \in Index(df_RFV) |->
                        recencia_class(df_RFV.Recencia[c], "Recencia", quartis)])
    /\ pc' = "F_quartil"
    /\ UNCHANGED <<df_compras, erro, dia_atual, df_recencia, df_frequencia,
                   df_valor, quartis, resumo>>

(* Line 141. *)
ClassificaF ==
    /\ pc = "F_quartil"
    /\ df_RFV' = ComColuna(df_RFV, "F_quartil",
                    [c \in Index(df_RFV) |->
                        freq_val_class(df_RFV.Frequencia[c], "Frequencia", quartis)])
    /\ pc' = "V_quartil"
    /\ UNCHANGED <<df_compras, erro, dia_atual, df_recencia, df_frequencia,
                   df_valor, quartis, resumo>>

(* Line 142. *)
ClassificaV ==
    /\ pc = "V_quartil"
    /\ df_RFV' = ComColuna(df_RFV, "V_quartil",
                    [c \in Index(df_RFV) |->
                        freq_val_class(df_RFV.Valor[c], "Valor", quartis)])
    /\ pc' = "RFV_Score"
    /\ UNCHANGED <<df_compras, erro, dia_atual, df_recencia, df_frequencia,
                   df_valor, quartis, resumo>>

(* Line 143. *)
Score ==
    /\ pc = "RFV_Score"
    /\ df_RFV' = ComColuna(df_RFV, "RFV_Score",
                    [c \in Index(df_RFV) |->
                        df_RFV.R_quartil[c] \o df_RFV.F_quartil[c]
                           \o df_RFV.V_quartil[c]])
    /\ pc' = "acoes"
    /\ UNCHANGED <<df_compras, erro, dia_atual, df_recencia, df_frequencia,
                   df_valor, quartis, resumo>>

(* Lines 156-163. *)
Acoes ==
    /\ pc = "acoes"
    /\ df_RFV' = ComColuna(df_RFV, "acoes", MapDict(df_RFV.RFV_Score, dict_acoes))
    /\ pc' = "resumo"
    /\ UNCHANGED <<df_compras, erro, dia_atual, df_recencia, df_frequencia,
                   df_valor, quartis, resumo>>

(* Lines 175-176. *)
Resumo ==
    /\ pc = "resumo"
    /\ resumo' = ValueCounts(df_RFV.acoes)
    /\ pc' = "fim"
    /\ UNCHANGED <<df_compras, erro, dia_atual, df_recencia, df_frequencia,
                   df_valor, df_RFV, quartis>>

Next ==
    \/ Recencia
    \/ Frequencia
    \/ Valor
    \/ TabelaRFV
    \/ Segmentacao
    \/ ClassificaR
    \/ ClassificaF
    \/ ClassificaV
    \/ Score
    \/ Acoes
    \/ Resumo

Spec == Init /\ [][Next]_vars


(* ------------------------------- Claims -------------------------------- *)

(* C1: once the recency frame exists, dia_atual is the largest DiaCompra   *)
(* of the whole table, and every customer's Recencia is dia_atual minus    *)
(* the latest DiaCompra of that customer's rows, hence never negative; the *)
(* RFV table carries the same values.                                      *)
C1_Recencia ==
    df_recencia # Vazio =>
        /\ \E i \in Linhas(df_compras) : df_compras[i].DiaCompra = dia_atual
        /\ \A i \in Linhas(df_compras) : df_compras[i].DiaCompra <= dia_atual
        /\ DOMAIN df_recencia = Grupos(df_compras)
        /\ \A c \in DOMAIN df_recencia :
              /\ df_recencia[c] >= 0
              /\ \E i \in Grupo(df_compras, c) :
                    /\ df_recencia[c] = dia_atual - df_compras[i].DiaCompra
                    /\ \A j \in Grupo(df_compras, c) :
                          df_compras[j].DiaCompra <= df_compras[i].DiaCompra
        /\ df_RFV # Vazio => df_RFV.Recencia = df_recencia

(* A finished run in which one customer bought on the last day and another *)
(* customer's latest purchase is older.                                    *)
C1_Witness ==
    /\ pc = "fim"
    /\ \E c, d \in Index(df_RFV) :
          /\ df_RFV.Recencia[c] = 0
          /\ df_RFV.Recencia[d] > 0
          /\ Cardinality(Grupo(df_compras, d)) > 1

(* C2: the RFV table has one row per distinct ID_cliente of the purchase   *)
(* table; Frequencia is the number of the customer's purchases and Valor   *)
(* the sum of their ValorTotal, counted here over the customer's rows in   *)
(* table order.                                                            *)
C2_FrequenciaValor ==
    LET RECURSIVE Soma(_)
        Soma(t) == IF t = <<>> THEN 0 ELSE Head(t).ValorTotal + Soma(Tail(t))
        Do(c) == SelectSeq(df_compras, LAMBDA r : r.ID_cliente = c)
    IN  df_RFV # Vazio =>
           /\ Index(df_RFV) = {df_compras[i].ID_cliente : i \in Linhas(df_compras)}
           /\ \A m \in DOMAIN df_RFV : DOMAIN df_RFV[m] = Index(df_RFV)
           /\ \A c \in Index(df_RFV) :
                 /\ df_RFV.Frequencia[c] = Len(Do(c))
                 /\ df_RFV.Valor[c] = Soma(Do(c))

(* A finished run with a customer who made the same purchase twice. *)
C2_Witness ==
    /\ pc = "fim"
    /\ \E c \in Index(df_RFV) :
          /\ df_RFV.Frequencia[c] >= 2
          /\ df_RFV.Valor[c] >= 2
          /\ \E i, j \in Grupo(df_compras, c) : i # j /\ df_compras[i] = df_compras[j]
    /\ Cardinality(Index(df_RFV)) >= 2

(* C3: every customer has exactly one recency grade, fixed by where the    *)
(* Recencia lies among the Recencia boundaries: A up to q25 (q25 itself    *)
(* included), B above q25 up to q50, C above q50 up to q75, D above q75.   *)
C3_RecenciaClass ==
    (df_RFV # Vazio /\ "R_quartil" \in DOMAIN df_RFV) =>
        \A c \in Index(df_RFV) :
            LET x == 4 * df_RFV.Recencia[c]
                q == quartis.Recencia
                g == df_RFV.R_quartil[c]
            IN  /\ g \in {"A", "B", "C", "D"}
                /\ (g = "A") <=> (x <= q.q25)
                /\ (g = "B") <=> (x > q.q25 /\ x <= q.q50)
                /\ (g = "C") <=> (x > q.q25 /\ x > q.q50 /\ x <= q.q75)
                /\ (g = "D") <=> (x > q.q25 /\ x > q.q50 /\ x > q.q75)
                /\ (x = q.q25) => (g = "A")

(* A customer whose Recencia is exactly q25 while the boundaries differ,   *)
(* so that the strict and the non-strict comparison part.                  *)
C3_Witness ==
    /\ df_RFV # Vazio /\ "R_quartil" \in DOMAIN df_RFV
    /\ quartis.Recencia.q25 < quartis.Recencia.q75
    /\ \E c \in Index(df_RFV) :
          /\ 4 * df_RFV.Recencia[c] = quartis.Recencia.q25
          /\ df_RFV.R_quartil[c] = "A"
    /\ \E c \in Index(df_RFV) : df_RFV.R_quartil[c] = "C"

(* C4: every customer has exactly one frequency grade and one value grade, *)
(* each fixed by where the metric lies among its own boundaries: D up to   *)
(* q25 (q25 itself included), C above q25 up to q50, B above q50 up to     *)
(* q75, A above q75.                                                       *)
C4_FreqValClass ==
    \A m \in {<<"Frequencia", "F_quartil">>, <<"Valor", "V_quartil">>} :
        (df_RFV # Vazio /\ m[2] \in DOMAIN df_RFV) =>
            \A c \in Index(df_RFV) :
                LET x == 4 * df_RFV[m[1]][c]
                    q == quartis[m[1]]
                    g == df_RFV[m[2]][c]
                IN  /\ g \in {"A", "B", "C", "D"}
                    /\ (g = "D") <=> (x <= q.q25)
                    /\ (g = "C") <=> (x > q.q25 /\ x <= q.q50)
                    /\ (g = "B") <=> (x > q.q25 /\ x > q.q50 /\ x <= q.q75)
                    /\ (g = "A") <=> (x > q.q25 /\ x > q.q50 /\ x > q.q75)
                    /\ (x = q.q25) => (g = "D")

(* A customer whose Valor is exactly q25 of Valor, in a population whose   *)
(* Frequencia and Valor boundaries differ and whose grades reach A.        *)
C4_Witness ==
    /\ df_RFV # Vazio /\ "V_quartil" \in DOMAIN df_RFV
    /\ quartis.Valor # quartis.Frequencia
    /\ quartis.Valor.q25 < quartis.Valor.q75
    /\ \E c \in Index(df_RFV) :
          /\ 4 * df_RFV.Valor[c] = quartis.Valor.q25
          /\ df_RFV.V_quartil[c] = "D"
    /\ \E c \in Index(df_RFV) : df_RFV.F_quartil[c] = "A" /\ df_RFV.V_quartil[c] = "B"

(* C5: a customer scored AAA, DDD, DAA or CAA gets the text listed for the *)
(* score, DAA and CAA the same one; a customer with any other score gets   *)
(* NaN, which is none of the listed texts; the run does not fail, and the  *)
(* final summary counts every customer under the action or NaN held.       *)
C5_Acoes ==
    (df_RFV # Vazio /\ "acoes" \in DOMAIN df_RFV) =>
        /\ ~erro
        /\ NaN \notin {AcaoAAA, AcaoDDD, AcaoReativacao}
        /\ \A c \in Index(df_RFV) :
              LET s == df_RFV.RFV_Score[c]
                  a == df_RFV.acoes[c]
              IN  /\ (s = "AAA") => (a = AcaoAAA)
                  /\ (s = "DDD") => (a = AcaoDDD)
                  /\ (s \in {"DAA", "CAA"}) => (a = AcaoReativacao)
                  /\ (s \notin {"AAA", "DDD", "DAA", "CAA"}) => (a = NaN)
        /\ (pc = "fim") =>
              \A c \in Index(df_RFV) :
                  /\ df_RFV.acoes[c] \in DOMAIN resumo
                  /\ resumo[df_RFV.acoes[c]] =
                        Cardinality({d \in Index(df_RFV) :
                                        df_RFV.acoes[d] = df_RFV.acoes[c]})

(* A finished run with a CAA customer and customers without an action. *)
C5_Witness ==
    /\ pc = "fim"
    /\ \E c, d \in Index(df_RFV) :
          /\ df_RFV.RFV_Score[c] = "CAA"
          /\ df_RFV.acoes[c] = AcaoReativacao
          /\ df_RFV.acoes[d] = NaN
    /\ NaN \in DOMAIN resumo
    /\ resumo[NaN] >= 2

C7_Monotonic ==
    quartis # Vazio =>
        /\ DOMAIN quartis = {"Recencia", "Frequencia", "Valor"}
        /\ \A m \in DOMAIN quartis :
              /\ quartis[m].q25 <= quartis[m].q50
              /\ quartis[m].q50 <= quartis[m].q75

(* Three or more customers whose Recencia column is not in rank order by   *)
(* index, with strictly increasing Valor boundaries, q25 interpolated.     *)
C7_Witness ==
    /\ quartis # Vazio
    /\ Cardinality(Index(df_RFV)) >= 3
    /\ \E c, d \in Index(df_RFV) : c < d /\ df_RFV.Recencia[c] > df_RFV.Recencia[d]
    /\ quartis.Valor.q25 < quartis.Valor.q50
    /\ quartis.Valor.q50 < quartis.Valor.q75
    /\ quartis.Valor.q25 % 4 # 0

(* C8: with a single customer the run does not fail, the three boundaries  *)
(* of every metric equal the customer's value of the metric, and the score *)
(* is ADD.                                                                 *)
C8_UmCliente ==
    (Cardinality({df_compras[i].ID_cliente : i \in Linhas(df_compras)}) = 1) =>
        /\ ~erro
        /\ pc # "abortado"
        /\ quartis # Vazio =>
              \A m \in {"Recencia", "Frequencia", "Valor"} :
                 \A c \in Index(df_RFV) :
                    /\ quartis[m].q25 = 4 * df_RFV[m][c]
                    /\ quartis[m].q50 = 4 * df_RFV[m][c]
                    /\ quartis[m].q75 = 4 * df_RFV[m][c]
        /\ (df_RFV # Vazio /\ "RFV_Score" \in DOMAIN df_RFV) =>
              \A c \in Index(df_RFV) :
                 /\ df_RFV.R_quartil[c] = "A"
                 /\ df_RFV.F_quartil[c] = "D"
                 /\ df_RFV.V_quartil[c] = "D"
                 /\ df_RFV.RFV_Score[c] = "ADD"

(* A finished run of one customer with several purchases. *)
C8_Witness ==
    /\ pc = "fim"
    /\ Cardinality(Index(df_RFV)) = 1
    /\ \A c \in Index(df_RFV) :
          /\ df_RFV.Frequencia[c] >= 2
          /\ df_RFV.Valor[c] >= 1
          /\ df_RFV.RFV_Score[c] = "ADD"
          /\ quartis.Frequencia.q50 = 4 * df_RFV.Frequencia[c]

(* C9: the steps run in the order aggregate, boundaries, grades, actions.  *)
(* The boundaries are set once, from the metrics of all the customers of   *)
(* the purchase table and before any grade column exists; no later step    *)
(* changes them, nor any existing column of the RFV table; and all three   *)
(* grade columns are the grades against those boundaries.                  *)
C9_Ordem ==
    [][LET Passos == <<"recencia", "frequencia", "valor", "tabela", "quartis",
                       "R_quartil", "F_quartil", "V_quartil", "RFV_Score",
                       "acoes", "resumo", "fim">>
           Metricas == {"Recencia", "Frequencia", "Valor"}
           Notas == {"R_quartil", "F_quartil", "V_quartil", "RFV_Score", "acoes"}
       IN  /\ \E k \in 1..(Len(Passos) - 1) :
                 /\ pc = Passos[k]
                 /\ pc' \in {Passos[k + 1], "abortado"}
           /\ (quartis' # quartis) =>
                 /\ quartis = Vazio /\ pc = "quartis" /\ pc' = "R_quartil"
                 /\ Index(df_RFV) = Grupos(df_compras)
                 /\ DOMAIN df_RFV = Metricas
           /\ (df_RFV # Vazio) =>
                 /\ DOMAIN df_RFV \subseteq DOMAIN df_RFV'
                 /\ \A m \in DOMAIN df_RFV : df_RFV'[m] = df_RFV[m]
           /\ (df_RFV' # Vazio) =>
                 /\ (DOMAIN df_RFV' \cap Notas # {}) =>
                       /\ quartis # Vazio
                       /\ quartis' = QuantileDF([m \in Metricas |-> df_RFV'[m]])
                 /\ ("R_quartil" \in DOMAIN df_RFV') =>
                       \A c \in Index(df_RFV') : df_RFV'.R_quartil[c] =
                          recencia_class(df_RFV'.Recencia[c], "Recencia", quartis')
                 /\ ("F_quartil" \in DOMAIN df_RFV') =>
                       \A c \in Index(df_RFV') : df_RFV'.F_quartil[c] =
                          freq_val_class(df_RFV'.Frequencia[c], "Frequencia", quartis')
                 /\ ("V_quartil" \in DOMAIN df_RFV') =>
                       \A c \in Index(df_RFV') : df_RFV'.V_quartil[c] =
                          freq_val_class(df_RFV'.Valor[c], "Valor", quartis')
      ]_vars

(* The grades of three or more customers are all in place under the        *)
(* boundaries computed before them.                                        *)
C9_Witness ==
    /\ pc = "fim"
    /\ Cardinality(Index(df_RFV)) >= 3
    /\ quartis.Recencia.q25 < quartis.Recencia.q75
    /\ \E c, d \in Index(df_RFV) : df_RFV.RFV_Score[c] # df_RFV.RFV_Score[d]

(* C10: some customer has Recencia 0; every customer with Recencia 0 is    *)
(* graded A on recency, every customer with the least Frequencia is graded *)
(* D on frequency and every customer with the least Valor is graded D on   *)
(* value.                                                                  *)
C10_Minimo ==
    (df_RFV # Vazio /\ "V_quartil" \in DOMAIN df_RFV) =>
        /\ \E c \in Index(df_RFV) : df_RFV.Recencia[c] = 0
        /\ \A c \in Index(df_RFV) :
              /\ (df_RFV.Recencia[c] = 0) => (df_RFV.R_quartil[c] = "A")
              /\ (\A d \in Index(df_RFV) :
                     df_RFV.Frequencia[c] <= df_RFV.Frequencia[d])
                    => (df_RFV.F_quartil[c] = "D")
              /\ (\A d \in Index(df_RFV) : df_RFV.Valor[c] <= df_RFV.Valor[d])
                    => (df_RFV.V_quartil[c] = "D")

(* Three or more customers of equal Frequencia, all graded D on it, with   *)
(* different Recencia and Valor.                                           *)
C10_Witness ==
    /\ df_RFV # Vazio /\ "V_quartil" \in DOMAIN df_RFV
    /\ Cardinality(Index(df_RFV)) >= 3
    /\ \A c, d \in Index(df_RFV) : df_RFV.Frequencia[c] = df_RFV.Frequencia[d]
    /\ \A c \in Index(df_RFV) : df_RFV.F_quartil[c] = "D"
    /\ \E c, d \in Index(df_RFV) :
          /\ df_RFV.Recencia[c] = 0 /\ df_RFV.R_quartil[c] = "A"
          /\ df_RFV.Recencia[d] > 0 /\ df_RFV.R_quartil[d] # "A"
          /\ df_RFV.V_quartil[c] # df_RFV.V_quartil[d]

=============================================================================
